---- MODULE Spec2Model ----
(***************************************************************************)
(* Model of the song-attributes streaming consumer                         *)
(* (consumers/kafka_consumer_song_attributes.py): main's startup steps,    *)
(* the Kafka verification steps and the consume loop of                    *)
(* consume_messages_from_kafka, process_message, and the SQLite store      *)
(* behind init_db, insert_message and generate_combined_graphs.            *)
(*                                                                         *)
(* Python / JSON values are records [t, i, s]: t is the type tag, i the    *)
(* integer payload and s the string payload.  A float is kept exactly as   *)
(* an integer number of hundredths (0.92 is FltV(92)), which is the        *)
(* precision the producer emits (round(..., 2)).                           *)
(***************************************************************************)
EXTENDS Integers, Sequences, FiniteSets, TLC

(***************************************************************************)
(* Bounds of the model.                                                    *)
(***************************************************************************)
\* Number of deliveries (messages, or failures of the iterator) per run.
MaxDeliveries == 3
\* Number of insert_message calls in the store-level specification.
MaxStoreOps == 3
\* Number of init_db calls in the store-level specification.
MaxInitCalls == 2

(***************************************************************************)
(* Exit statuses written in the source.                                    *)
(***************************************************************************)
ExitConfig == 1
ExitDelete == 2
ExitInitDb == 3
ExitVerifyServices == 11
ExitCreateConsumer == 11
ExitTopic == 13
ExitConsumerNone == 13
\* main returns normally after its try/except/finally: the interpreter's
\* status for a normal return.
ExitNormal == 0
\* No exit yet.
Running == -1

(***************************************************************************)
(* Values.                                                                 *)
(***************************************************************************)
Null == [t |-> "null", i |-> 0, s |-> ""]
IntV(n) == [t |-> "int", i |-> n, s |-> ""]
FltV(h) == [t |-> "float", i |-> h, s |-> ""]
StrV(x) == [t |-> "str", i |-> 0, s |-> x]
List == [t |-> "list", i |-> 0, s |-> ""]
\* A key that the mapping does not hold.
Absent == [t |-> "absent", i |-> 0, s |-> ""]

Fields == {"title", "artist", "genre", "duration_seconds", "release_year", "sentiment"}

\* Python's None as the result of process_message, and a returned dict.
None == <<>>
Some(r) == <<r>>

\* The outcome of a conversion: a value, or the exception it raised.
Ok(v) == [ok |-> TRUE, v |-> v]
Raise == [ok |-> FALSE, v |-> Null]

\* Truncation toward zero, as int(float) does.
Trunc(h) == IF h >= 0 THEN h \div 100 ELSE -((-h) \div 100)

\* The strings of the model that Python parses as an integer literal.
IsIntLiteral(x) == x \in {"1975", "7"}
IntLiteral(x) == IF x = "1975" THEN 1975 ELSE 7

\* dict.get(key, default): the default only when the key is missing.
Get(message, key, default) ==
    IF message.f[key] = Absent THEN default ELSE message.f[key]

\* int(x)
PyInt(x) ==
    CASE x.t = "int" -> Ok(IntV(x.i))
      [] x.t = "float" -> Ok(IntV(Trunc(x.i)))
      [] x.t = "str" -> IF IsIntLiteral(x.s) THEN Ok(IntV(IntLiteral(x.s))) ELSE Raise
      [] OTHER -> Raise

\* float(x)
PyFloat(x) ==
    CASE x.t = "int" -> Ok(FltV(100 * x.i))
      [] x.t = "float" -> Ok(FltV(x.i))
      [] x.t = "str" -> IF IsIntLiteral(x.s) THEN Ok(FltV(100 * IntLiteral(x.s))) ELSE Raise
      [] OTHER -> Raise

\* process_message with each numeric field converted in a try block of its
\* own, a failed conversion giving the field's default.
process_message_per_field(message) ==
    IF ~message.isMap THEN None
    ELSE LET d == PyInt(Get(message, "duration_seconds", IntV(0)))
             y == PyInt(Get(message, "release_year", IntV(0)))
             z == PyFloat(Get(message, "sentiment", FltV(0)))
             text(k) == IF message.f[k] = Absent THEN Null ELSE message.f[k]
         IN  Some([title |-> text("title"),
                   artist |-> text("artist"),
                   genre |-> text("genre"),
                   duration_seconds |-> IF d.ok THEN d.v ELSE IntV(0),
                   release_year |-> IF y.ok THEN y.v ELSE IntV(0),
                   sentiment |-> IF z.ok THEN z.v ELSE FltV(0)])

\* process_message reading a message that is no mapping as an empty one.
process_message_any_input(message) ==
    LET d == PyInt(Get(message, "duration_seconds", IntV(0)))
        y == PyInt(Get(message, "release_year", IntV(0)))
        z == PyFloat(Get(message, "sentiment", FltV(0)))
        text(k) == IF message.f[k] = Absent THEN Null ELSE message.f[k]
    IN  IF d.ok /\ y.ok /\ z.ok
        THEN Some([title |-> text("title"),
                   artist |-> text("artist"),
                   genre |-> text("genre"),
                   duration_seconds |-> d.v,
                   release_year |-> y.v,
                   sentiment |-> z.v])
        ELSE None

\* process_message: the dict literal is built inside one try block, so an
\* exception from any .get (a message that is no mapping) or from any
\* int()/float() leaves processed_message at None.
process_message(message) ==
    IF ~message.isMap THEN None
    ELSE LET d == PyInt(Get(message, "duration_seconds", IntV(0)))
             y == PyInt(Get(message, "release_year", IntV(0)))
             z == PyFloat(Get(message, "sentiment", FltV(0)))
             text(k) == IF message.f[k] = Absent THEN Null ELSE message.f[k]
         IN  IF d.ok /\ y.ok /\ z.ok
             THEN Some([title |-> text("title"),
                        artist |-> text("artist"),
                        genre |-> text("genre"),
                        duration_seconds |-> d.v,
                        release_year |-> y.v,
                        sentiment |-> z.v])
             ELSE None

\* `if processed_message:` - None is falsy, a dict with six keys is truthy.
Truthy(pm) == pm # None

(***************************************************************************)
(* The SQLite store: the database file, the songs table and the            *)
(* AUTOINCREMENT counter that SQLite keeps in sqlite_sequence.             *)
(***************************************************************************)
NoFile == [exists |-> FALSE, hasTable |-> FALSE, songs |-> <<>>, seq |-> 0]

Digit(d) ==
    CASE d = 0 -> "0" [] d = 1 -> "1" [] d = 2 -> "2" [] d = 3 -> "3" [] d = 4 -> "4"
      [] d = 5 -> "5" [] d = 6 -> "6" [] d = 7 -> "7" [] d = 8 -> "8" [] OTHER -> "9"

RECURSIVE NatText(_)
NatText(n) == IF n < 10 THEN Digit(n) ELSE NatText(n \div 10) \o Digit(n % 10)

\* The text SQLite stores for an INTEGER put into a TEXT column.
IntText(n) == IF n < 0 THEN "-" \o NatText(-n) ELSE NatText(n)

\* The text SQLite stores for a REAL put into a TEXT column ('1.5', '2.0').
RealText(h) ==
    LET a == IF h < 0 THEN -h ELSE h
        frac == a % 100
        tail == IF frac % 10 = 0 THEN Digit(frac \div 10)
                ELSE Digit(frac \div 10) \o Digit(frac % 10)
    IN  (IF h < 0 THEN "-" ELSE "") \o NatText(a \div 100) \o "." \o tail

\* Binding a Python value to a `?` parameter: None, int, float and str are
\* supported, any other type raises.
Bind(v) == IF v.t \in {"null", "int", "float", "str"} THEN Ok(v) ELSE Raise

\* Column affinity applied when a value is stored (CREATE TABLE songs).
TextAffinity(v) ==
    CASE v.t = "int" -> StrV(IntText(v.i))
      [] v.t = "float" -> StrV(RealText(v.i))
      [] OTHER -> v

IntegerAffinity(v) ==
    CASE v.t = "float" /\ v.i % 100 = 0 -> IntV(v.i \div 100)
      [] v.t = "str" /\ IsIntLiteral(v.s) -> IntV(IntLiteral(v.s))
      [] OTHER -> v

RealAffinity(v) ==
    CASE v.t = "int" -> FltV(100 * v.i)
      [] v.t = "str" /\ IsIntLiteral(v.s) -> FltV(100 * IntLiteral(v.s))
      [] OTHER -> v

RECURSIVE MaxId(_)
MaxId(songs) ==
    IF songs = <<>> THEN 0
    ELSE LET m == MaxId(Tail(songs)) IN IF Head(songs).id > m THEN Head(songs).id ELSE m

\* An id column that hands out the largest id again.
NextId_reused(songs, seq) == IF MaxId(songs) > seq THEN MaxId(songs) ELSE seq

\* id INTEGER PRIMARY KEY AUTOINCREMENT: one more than the largest id ever
\* used in the table.
NextId(songs, seq) == (IF MaxId(songs) > seq THEN MaxId(songs) ELSE seq) + 1

\* init_db that drops and recreates the table.
init_db_recreate(d) == [exists |-> TRUE, hasTable |-> TRUE, songs |-> <<>>, seq |-> 0]

\* init_db: connect (which creates the file) and CREATE TABLE IF NOT EXISTS.
init_db(d) ==
    IF d.hasTable THEN d
    ELSE [exists |-> TRUE, hasTable |-> TRUE, songs |-> <<>>, seq |-> 0]

\* A delete step that leaves the file in place.
unlink_skipped(d) == d

\* sqlite_path.unlink()
unlink(d) == NoFile

\* INSERT OR REPLACE under a fixed id: the new row takes the place of the
\* rows stored before.
insert_message_replace(r, d) ==
    LET cols == <<r.title, r.artist, r.genre, r.duration_seconds, r.release_year, r.sentiment>>
    IN  IF ~d.hasTable
        THEN [ok |-> FALSE, db |-> [d EXCEPT !.exists = TRUE]]
        ELSE IF \E k \in 1..6 : ~Bind(cols[k]).ok
        THEN [ok |-> FALSE, db |-> d]
        ELSE [ok |-> TRUE,
              db |-> [d EXCEPT
                  !.songs = <<[id |-> 1,
                               title |-> TextAffinity(r.title),
                               artist |-> TextAffinity(r.artist),
                               genre |-> TextAffinity(r.genre),
                               duration_seconds |-> IntegerAffinity(r.duration_seconds),
                               release_year |-> IntegerAffinity(r.release_year),
                               sentiment |-> RealAffinity(r.sentiment)]>>,
                  !.seq = 1]]

\* insert_message: connect, INSERT the six fields, commit.  The result is
\* the store afterwards and whether the call returned (ok) or raised.
insert_message(r, d) ==
    LET cols == <<r.title, r.artist, r.genre, r.duration_seconds, r.release_year, r.sentiment>>
        id == NextId(d.songs, d.seq)
    IN  IF ~d.hasTable
        THEN [ok |-> FALSE, db |-> [d EXCEPT !.exists = TRUE]]
        ELSE IF \E k \in 1..6 : ~Bind(cols[k]).ok
        THEN [ok |-> FALSE, db |-> d]
        ELSE [ok |-> TRUE,
              db |-> [d EXCEPT
                  !.songs = Append(@, [id |-> id,
                                       title |-> TextAffinity(r.title),
                                       artist |-> TextAffinity(r.artist),
                                       genre |-> TextAffinity(r.genre),
                                       duration_seconds |-> IntegerAffinity(r.duration_seconds),
                                       release_year |-> IntegerAffinity(r.release_year),
                                       sentiment |-> RealAffinity(r.sentiment)]),
                  !.seq = id]]

(***************************************************************************)
(* The three grouped queries of generate_combined_graphs.                  *)
(***************************************************************************)
Column(songs, col) == {songs[k][col] : k \in 1..Len(songs)}

\* COUNT(DISTINCT col) of one group.
Count_distinct(songs, col, key) ==
    Cardinality({songs[k][col] : k \in {j \in 1..Len(songs) : songs[j][col] = key}})

\* COUNT(*) of one group.
Count(songs, col, key) == Cardinality({k \in 1..Len(songs) : songs[k][col] = key})

RECURSIVE SumSentiment(_, _)
SumSentiment(songs, year) ==
    IF songs = <<>> THEN 0
    ELSE (IF Head(songs).release_year = year /\ Head(songs).sentiment.t = "float"
          THEN Head(songs).sentiment.i ELSE 0) + SumSentiment(Tail(songs), year)

\* AVG(sentiment) of one group, kept exact as sum (in hundredths) over the
\* number of non-NULL values.
Avg(songs, year) ==
    [sum |-> SumSentiment(songs, year),
     n |-> Cardinality({k \in 1..Len(songs) :
              songs[k].release_year = year /\ songs[k].sentiment.t = "float"})]

\* ORDER BY release_year DESC
RECURSIVE Descending(_)
Descending(S) ==
    IF S = {} THEN <<>>
    ELSE LET m == CHOOSE x \in S : \A y \in S : x.i >= y.i
         IN  <<m>> \o Descending(S \ {m})

\* ORDER BY release_year: the keys are INTEGERs, ascending.
RECURSIVE Ascending(_)
Ascending(S) ==
    IF S = {} THEN <<>>
    ELSE LET m == CHOOSE x \in S : \A y \in S : x.i <= y.i
         IN  <<m>> \o Ascending(S \ {m})

\* The orders in which a query without ORDER BY may return its groups.
Orders(S) ==
    {o \in [1..Cardinality(S) -> S] : \A a, b \in 1..Cardinality(S) : o[a] = o[b] => a = b}

\* SELECT release_year, COUNT(*) ... GROUP BY release_year ORDER BY release_year
ReleaseYearQuery(songs) ==
    LET keys == Ascending(Column(songs, "release_year"))
    IN  [k \in 1..Len(keys) |-> <<keys[k], Count(songs, "release_year", keys[k])>>]

\* SELECT release_year, AVG(sentiment) ... GROUP BY release_year ORDER BY release_year
SentimentQuery(songs) ==
    LET keys == Ascending(Column(songs, "release_year"))
    IN  [k \in 1..Len(keys) |-> <<keys[k], Avg(songs, keys[k])>>]

\* SELECT genre, COUNT(*) ... GROUP BY genre, in the order o the database chose.
GenreQuery(songs, o) == [k \in DOMAIN o |-> <<o[k], Count(songs, "genre", o[k])>>]

(***************************************************************************)
(* Raw messages: what the value deserializer (json.loads) hands to         *)
(* process_message.  A mapping holds a value, or nothing, for each key.    *)
(***************************************************************************)
Mapping(title, artist, genre, duration_seconds, release_year, sentiment) ==
    [isMap |-> TRUE, kind |-> "dict",
     f |-> [k \in Fields |->
              CASE k = "title" -> title
                [] k = "artist" -> artist
                [] k = "genre" -> genre
                [] k = "duration_seconds" -> duration_seconds
                [] k = "release_year" -> release_year
                [] OTHER -> sentiment]]

\* A JSON document that is no object: a list, or null.
NotMapping(kind) == [isMap |-> FALSE, kind |-> kind, f |-> [k \in Fields |-> Absent]]

NoMessage == NotMapping("none")

Messages ==
    { \* what the producer sends
      Mapping(StrV("Imagine"), StrV("Queen"), StrV("Rock"), IntV(354), IntV(1975), FltV(92)),
      Mapping(StrV("Imagine"), StrV("Queen"), StrV("Pop"), IntV(180), IntV(1980), FltV(10)),
      \* a mapping without the numeric keys and without a genre
      Mapping(StrV("Imagine"), Absent, Absent, Absent, Absent, Absent),
      \* numeric fields that int() and float() accept: a float, a numeral
      Mapping(StrV("Imagine"), StrV("Queen"), Null, FltV(-550), StrV("1975"), IntV(1)),
      \* numeric fields that are present and not coercible
      Mapping(StrV("Imagine"), StrV("Queen"), StrV("Rock"), StrV("abc"), IntV(1975), FltV(92)),
      Mapping(StrV("Imagine"), StrV("Queen"), StrV("Rock"), IntV(354), Null, FltV(92)),
      Mapping(StrV("Imagine"), StrV("Queen"), StrV("Rock"), IntV(354), IntV(1975), StrV("abc")),
      \* a negative duration
      Mapping(StrV("Imagine"), StrV("Queen"), StrV("Pop"), IntV(-5), IntV(1960), FltV(-50)),
      \* text fields that are no text
      Mapping(IntV(7), StrV("Queen"), StrV("Rock"), IntV(354), IntV(1980), FltV(92)),
      Mapping(List, StrV("Queen"), StrV("Rock"), IntV(354), IntV(1980), FltV(92)),
      \* no mapping at all
      NotMapping("list"),
      NotMapping("null") }

(***************************************************************************)
(* State.                                                                  *)
(***************************************************************************)
VARIABLES
    pc,                 \* the statement main / consume_messages_from_kafka is at
    exitCode,           \* the process's exit status, Running until it exits
    cause,              \* why the process exited
    db,                 \* the SQLite file at sqlite_path
    consumer,           \* the local `consumer` of consume_messages_from_kafka
    message,            \* message.value of the loop's current message
    processed_message,  \* the local `processed_message` of the loop
    release_year_data,  \* the three results of the last generate_combined_graphs
    sentiment_data,
    genre_data,
    deliveries,         \* history: the messages the iterator has yielded
    validated,          \* history: the records process_message returned
    appended,           \* history: the committed inserts (delivery, id)
    recomputed,         \* history: the store each generate_combined_graphs read
    unlinked,           \* history: this run deleted the database file
    initialised         \* history: the number of init_db calls that returned

vars == <<pc, exitCode, cause, db, consumer, message, processed_message,
          release_year_data, sentiment_data, genre_data,
          deliveries, validated, appended, recomputed, unlinked, initialised>>

loopVars == <<message, processed_message, release_year_data, sentiment_data, genre_data,
              deliveries, validated, appended, recomputed>>

\* A database file left by an earlier run.
PriorStore ==
    [exists |-> TRUE, hasTable |-> TRUE,
     songs |-> <<[id |-> 1, title |-> StrV("Hotel California"), artist |-> StrV("Eagles"),
                  genre |-> StrV("Rock"), duration_seconds |-> IntV(390),
                  release_year |-> IntV(1977), sentiment |-> FltV(50)]>>,
     seq |-> 1]

InitCommon ==
    /\ exitCode = Running
    /\ cause = ""
    /\ consumer = "unset"
    /\ message = NoMessage
    /\ processed_message = None
    /\ release_year_data = <<>>
    /\ sentiment_data = <<>>
    /\ genre_data = <<>>
    /\ deliveries = <<>>
    /\ validated = <<>>
    /\ appended = <<>>
    /\ recomputed = <<>>
    /\ unlinked = FALSE
    /\ initialised = 0

Init ==
    /\ pc = "read_config"
    /\ db \in {NoFile, PriorStore}
    /\ InitCommon

\* sys.exit(status), or main returning after its except/finally clauses.
Exit(status, why) ==
    /\ pc' = "exited"
    /\ exitCode' = status
    /\ cause' = why

(***************************************************************************)
(* main, steps 1 to 3.                                                     *)
(***************************************************************************)
ReadConfigOk ==
    /\ pc = "read_config"
    /\ pc' = "delete_db"
    /\ UNCHANGED <<exitCode, cause, db, consumer, loopVars, unlinked, initialised>>

ReadConfigFail ==
    /\ pc = "read_config"
    /\ Exit(ExitConfig, "config")
    /\ UNCHANGED <<db, consumer, loopVars, unlinked, initialised>>

\* `if sqlite_path.exists():` is false
DeleteDbSkip ==
    /\ pc = "delete_db"
    /\ ~db.exists
    /\ pc' = "init_db"
    /\ UNCHANGED <<exitCode, cause, db, consumer, loopVars, unlinked, initialised>>

DeleteDbOk ==
    /\ pc = "delete_db"
    /\ db.exists
    /\ db' = unlink(db)
    /\ unlinked' = TRUE
    /\ pc' = "init_db"
    /\ UNCHANGED <<exitCode, cause, consumer, loopVars, initialised>>

\* A failed delete that is logged without sys.exit: main goes on to step 3.
DeleteDbFail_continue ==
    /\ pc = "delete_db"
    /\ db.exists
    /\ cause' = "delete"
    /\ pc' = "init_db"
    /\ UNCHANGED <<exitCode, db, consumer, loopVars, unlinked, initialised>>

DeleteDbFail ==
    /\ pc = "delete_db"
    /\ db.exists
    /\ Exit(ExitDelete, "delete")
    /\ UNCHANGED <<db, consumer, loopVars, unlinked, initialised>>

InitDbOk ==
    /\ pc = "init_db"
    /\ db' = init_db(db)
    /\ initialised' = initialised + 1
    /\ pc' = "verify_services"
    /\ UNCHANGED <<exitCode, cause, consumer, loopVars, unlinked>>

InitDbFail ==
    /\ pc = "init_db"
    /\ Exit(ExitInitDb, "init_db")
    /\ UNCHANGED <<db, consumer, loopVars, unlinked, initialised>>

(***************************************************************************)
(* consume_messages_from_kafka, steps 1 to 3.                              *)
(***************************************************************************)
VerifyServicesOk ==
    /\ pc = "verify_services"
    /\ pc' = "create_consumer"
    /\ UNCHANGED <<exitCode, cause, db, consumer, loopVars, unlinked, initialised>>

VerifyServicesFail ==
    /\ pc = "verify_services"
    /\ Exit(ExitVerifyServices, "broker")
    /\ UNCHANGED <<db, consumer, loopVars, unlinked, initialised>>

\* create_kafka_consumer returns a consumer, or None, or raises.
CreateConsumerOk ==
    /\ pc = "create_consumer"
    /\ \E c \in {"handle", "none"} : consumer' = c
    /\ pc' = "verify_topic"
    /\ UNCHANGED <<exitCode, cause, db, loopVars, unlinked, initialised>>

CreateConsumerFail ==
    /\ pc = "create_consumer"
    /\ Exit(ExitCreateConsumer, "consumer")
    /\ UNCHANGED <<db, consumer, loopVars, unlinked, initialised>>

VerifyTopicOk ==
    /\ pc = "verify_topic"
    /\ consumer = "handle"
    /\ pc' = "pull"
    /\ UNCHANGED <<exitCode, cause, db, consumer, loopVars, unlinked, initialised>>

\* A missing topic that is logged without sys.exit: the loop is entered.
VerifyTopicFail_ignored ==
    /\ pc = "verify_topic"
    /\ consumer = "handle"
    /\ cause' = "topic"
    /\ pc' = "pull"
    /\ UNCHANGED <<exitCode, db, consumer, loopVars, unlinked, initialised>>

VerifyTopicFail ==
    /\ pc = "verify_topic"
    /\ consumer = "handle"
    /\ Exit(ExitTopic, "topic")
    /\ UNCHANGED <<db, consumer, loopVars, unlinked, initialised>>

\* `if consumer is None:` after step 3 was skipped
ConsumerIsNone ==
    /\ pc = "verify_topic"
    /\ consumer = "none"
    /\ Exit(ExitConsumerNone, "consumer_none")
    /\ UNCHANGED <<db, consumer, loopVars, unlinked, initialised>>

(***************************************************************************)
(* consume_messages_from_kafka, step 4: the loop.                          *)
(***************************************************************************)
\* `for message in consumer:` yields the next message.
Pull ==
    /\ pc = "pull"
    /\ Len(deliveries) < MaxDeliveries
    /\ \E m \in Messages :
         /\ message' = m
         /\ deliveries' = Append(deliveries, m)
    /\ pc' = "process"
    /\ UNCHANGED <<exitCode, cause, db, consumer, processed_message, release_year_data,
                   sentiment_data, genre_data, validated, appended, recomputed,
                   unlinked, initialised>>

\* the value deserializer raises on a payload that is no UTF-8 JSON; the
\* exception leaves the for statement, is logged and re-raised, and main
\* logs it and returns.
PullUndecodable ==
    /\ pc = "pull"
    /\ Len(deliveries) < MaxDeliveries
    /\ Exit(ExitNormal, "decode")
    /\ UNCHANGED <<db, consumer, loopVars, unlinked, initialised>>

\* the iterator raises a transport error.
PullTransportError ==
    /\ pc = "pull"
    /\ Exit(ExitNormal, "transport")
    /\ UNCHANGED <<db, consumer, loopVars, unlinked, initialised>>

\* The loop with a rejected message treated as an error: the exception
\* leaves the loop and main logs it and returns.
Process_fatal ==
    /\ pc = "process"
    /\ processed_message' = process_message(message)
    /\ validated' = IF process_message(message) # None
                    THEN Append(validated, [n |-> Len(deliveries),
                                            rec |-> process_message(message)[1]])
                    ELSE validated
    /\ IF Truthy(process_message(message))
       THEN pc' = "insert" /\ UNCHANGED <<exitCode, cause>>
       ELSE Exit(ExitNormal, "validation")
    /\ UNCHANGED <<db, consumer, message, release_year_data,
                   sentiment_data, genre_data, deliveries, appended, recomputed,
                   unlinked, initialised>>

\* processed_message = process_message(message.value), and the `if`.
Process ==
    /\ pc = "process"
    /\ processed_message' = process_message(message)
    /\ validated' = IF process_message(message) # None
                    THEN Append(validated, [n |-> Len(deliveries),
                                            rec |-> process_message(message)[1]])
                    ELSE validated
    /\ pc' = IF Truthy(process_message(message)) THEN "insert" ELSE "pull"
    /\ UNCHANGED <<exitCode, cause, db, consumer, message, release_year_data,
                   sentiment_data, genre_data, deliveries, appended, recomputed,
                   unlinked, initialised>>

\* The history entry of a committed insert.
Committed(d) == [n |-> Len(deliveries), id |-> d.songs[Len(d.songs)].id]

\* The loop with the recomputation left for later: after the insert the next
\* message is pulled.
InsertOk_deferred ==
    /\ pc = "insert"
    /\ LET r == insert_message(processed_message[1], db)
       IN  /\ r.ok
           /\ db' = r.db
           /\ appended' = Append(appended, Committed(r.db))
    /\ pc' = "pull"
    /\ UNCHANGED <<exitCode, cause, consumer, message, processed_message, release_year_data,
                   sentiment_data, genre_data, deliveries, validated, recomputed,
                   unlinked, initialised>>

InsertOk ==
    /\ pc = "insert"
    /\ LET r == insert_message(processed_message[1], db)
       IN  /\ r.ok
           /\ db' = r.db
           /\ appended' = Append(appended, Committed(r.db))
    /\ pc' = "graphs"
    /\ UNCHANGED <<exitCode, cause, consumer, message, processed_message, release_year_data,
                   sentiment_data, genre_data, deliveries, validated, recomputed,
                   unlinked, initialised>>

\* insert_message raises on its own input: a value sqlite3 cannot bind.
InsertRaises ==
    /\ pc = "insert"
    /\ LET r == insert_message(processed_message[1], db)
       IN  /\ ~r.ok
           /\ db' = r.db
    /\ Exit(ExitNormal, "storage")
    /\ UNCHANGED <<consumer, loopVars, unlinked, initialised>>

\* A storage error that the loop logs and survives: the record is dropped
\* and the next message is pulled.
InsertStorageError_swallowed ==
    /\ pc = "insert"
    /\ pc' = "pull"
    /\ UNCHANGED <<exitCode, cause, db, consumer, loopVars, unlinked, initialised>>

\* insert_message raises because of the storage (disk, permissions, lock):
\* nothing is committed.
InsertStorageError ==
    /\ pc = "insert"
    /\ Exit(ExitNormal, "storage")
    /\ UNCHANGED <<db, consumer, loopVars, unlinked, initialised>>

\* generate_combined_graphs returns: the three queries, then either the
\* early return on an empty result or the rendering.
Graphs ==
    /\ pc = "graphs"
    /\ release_year_data' = ReleaseYearQuery(db.songs)
    /\ sentiment_data' = SentimentQuery(db.songs)
    /\ \E o \in Orders(Column(db.songs, "genre")) : genre_data' = GenreQuery(db.songs, o)
    /\ recomputed' = Append(recomputed,
           [n |-> Len(deliveries), songs |-> db.songs,
            rendered |-> (release_year_data' # <<>> /\ sentiment_data' # <<>>
                          /\ genre_data' # <<>>)])
    /\ pc' = "pull"
    /\ UNCHANGED <<exitCode, cause, db, consumer, message, processed_message, deliveries,
                   validated, appended, unlinked, initialised>>

\* A failed recomputation that takes the row that triggered it out again.
GraphsRaises_rollback ==
    /\ pc = "graphs"
    /\ db' = [db EXCEPT !.songs = SubSeq(@, 1, Len(@) - 1)]
    /\ Exit(ExitNormal, "aggregate")
    /\ UNCHANGED <<consumer, loopVars, unlinked, initialised>>

\* generate_combined_graphs raises (a query or the rendering fails).
GraphsRaises ==
    /\ pc = "graphs"
    /\ Exit(ExitNormal, "aggregate")
    /\ UNCHANGED <<db, consumer, loopVars, unlinked, initialised>>

\* The statements of main's step 4, where KeyboardInterrupt is caught.
StepFour == {"verify_services", "create_consumer", "verify_topic",
             "pull", "process", "insert", "graphs"}

\* An insert that is not atomic: interrupted, it leaves a row whose numeric
\* columns were not written yet.
Interrupt_torn ==
    /\ pc \in StepFour
    /\ \/ UNCHANGED <<db, appended>>
       \/ /\ pc = "insert"
          /\ insert_message(processed_message[1], db).ok
          /\ LET full == insert_message(processed_message[1], db).db
                 k == Len(full.songs)
             IN  db' = [full EXCEPT !.songs[k].duration_seconds = Null,
                                    !.songs[k].release_year = Null,
                                    !.songs[k].sentiment = Null]
          /\ appended' = Append(appended, Committed(db'))
    /\ Exit(ExitNormal, "interrupt")
    /\ UNCHANGED <<consumer, message, processed_message, release_year_data, sentiment_data,
                   genre_data, deliveries, validated, recomputed, unlinked, initialised>>

\* KeyboardInterrupt: raised anywhere in step 4, caught by main.  Raised
\* inside insert_message it arrives before the commit or after it.
Interrupt ==
    /\ pc \in StepFour
    /\ \/ UNCHANGED <<db, appended>>
       \/ /\ pc = "insert"
          /\ insert_message(processed_message[1], db).ok
          /\ db' = insert_message(processed_message[1], db).db
          /\ appended' = Append(appended, Committed(db'))
    /\ Exit(ExitNormal, "interrupt")
    /\ UNCHANGED <<consumer, message, processed_message, release_year_data, sentiment_data,
                   genre_data, deliveries, validated, recomputed, unlinked, initialised>>

Next ==
    \/ ReadConfigOk \/ ReadConfigFail
    \/ DeleteDbSkip \/ DeleteDbOk \/ DeleteDbFail
    \/ InitDbOk \/ InitDbFail
    \/ VerifyServicesOk \/ VerifyServicesFail
    \/ CreateConsumerOk \/ CreateConsumerFail
    \/ VerifyTopicOk \/ VerifyTopicFail \/ ConsumerIsNone
    \/ Pull \/ PullUndecodable \/ PullTransportError
    \/ Process
    \/ InsertOk \/ InsertRaises \/ InsertStorageError
    \/ Graphs \/ GraphsRaises
    \/ Interrupt

Spec == Init /\ [][Next]_vars

(***************************************************************************)
(* The store on its own: init_db and insert_message called in any order,   *)
(* as a caller of the module may.  cause holds the name of the last call,  *)
(* validated the records passed to insert_message.                         *)
(***************************************************************************)
\* The records process_message can return for the messages of the model.
Records == {process_message(m)[1] : m \in {x \in Messages : process_message(x) # None}}

StoreInit ==
    /\ pc = "store"
    /\ db = NoFile
    /\ InitCommon

StoreInitDb ==
    /\ pc = "store"
    /\ initialised < MaxInitCalls
    /\ db' = init_db(db)
    /\ initialised' = initialised + 1
    /\ cause' = "init_db"
    /\ UNCHANGED <<pc, exitCode, consumer, loopVars, unlinked>>

StoreInsert ==
    /\ pc = "store"
    /\ Len(validated) < MaxStoreOps
    /\ \E r \in Records :
         /\ db' = insert_message(r, db).db
         /\ validated' = Append(validated, [n |-> 0, rec |-> r])
    /\ cause' = "insert_message"
    /\ UNCHANGED <<pc, exitCode, consumer, message, processed_message,
                   release_year_data, sentiment_data, genre_data, deliveries, appended,
                   recomputed, unlinked, initialised>>

StoreNext == StoreInitDb \/ StoreInsert

StoreSpec == StoreInit /\ [][StoreNext]_vars

(***************************************************************************)
(* Properties.                                                             *)
(***************************************************************************)
NumericFields == {"duration_seconds", "release_year", "sentiment"}
TextFields == {"title", "artist", "genre"}

Default(k) == IF k = "sentiment" THEN FltV(0) ELSE IntV(0)

\* A value that neither int() nor float() accepts: None, a list, a text
\* that is no numeral.
NotANumber(v) == v.t \in {"null", "list"} \/ (v.t = "str" /\ v.s \notin {"1975", "7"})

\* A mapping with a numeric field that is present and not coercible.
HasNonCoercible(m) == m.isMap /\ \E k \in NumericFields : NotANumber(m.f[k])

\* The loop has run process_message on `message` and acted on its result.
Processed == pc \in {"pull", "insert", "graphs"} /\ deliveries # <<>>

\* The deliveries for which a row was committed.
AppendedFor(n) == \E k \in DOMAIN appended : appended[k].n = n
ValidatedFor(n) == \E k \in DOMAIN validated : validated[k].n = n
RecomputedFor(n) == \E k \in DOMAIN recomputed : recomputed[k].n = n

C2_NonMappingLeavesStore ==
    /\ \A n \in DOMAIN deliveries :
          ~deliveries[n].isMap =>
              ~ValidatedFor(n) /\ ~AppendedFor(n) /\ ~RecomputedFor(n)
    /\ (Processed /\ ~message.isMap) => (processed_message = None /\ pc = "pull")
    /\ pc \in {"pull", "process", "insert", "graphs"} =>
          /\ Len(db.songs) = Len(appended)
          /\ db.seq = Len(appended)

C2_Witness ==
    /\ Processed
    /\ ~message.isMap
    /\ pc = "pull"
    /\ Len(deliveries) = 2
    /\ Len(db.songs) = 1
    /\ db.seq = 1

\* The six fields of a row, read back by its identifier.
RowById(id) ==
    LET row == db.songs[CHOOSE k \in DOMAIN db.songs : db.songs[k].id = id]
    IN  [title |-> row.title, artist |-> row.artist, genre |-> row.genre,
         duration_seconds |-> row.duration_seconds, release_year |-> row.release_year,
         sentiment |-> row.sentiment]

\* C3 as stated: between two messages the songs table holds exactly one row
\* per validated message, and the six fields of each row read back by its
\* identifier equal the fields of the validated record that was inserted.
C3_RowsEqualValidatedRecords ==
    pc = "pull" =>
        /\ Len(db.songs) = Len(validated)
        /\ Len(appended) = Len(validated)
        /\ \A k \in DOMAIN validated :
              /\ appended[k].n = validated[k].n
              /\ Cardinality({j \in DOMAIN db.songs : db.songs[j].id = appended[k].id}) = 1
              /\ RowById(appended[k].id) = validated[k].rec

\* C4: the identifiers of the appended records are unique and strictly
\* increasing in the order in which the accepted messages were delivered;
\* a rejected message consumes none, so consecutive accepted messages get
\* consecutive identifiers; the table's ids are the ones handed out.
C4_IdsIncreaseInDeliveryOrder ==
    /\ \A a, b \in DOMAIN appended :
          a < b => (appended[a].n < appended[b].n /\ appended[a].id < appended[b].id)
    /\ \A a \in DOMAIN appended :
          a > 1 => appended[a].id = appended[a - 1].id + 1
    /\ \A a \in DOMAIN appended : ~HasNonCoercible(deliveries[appended[a].n])
                                   /\ deliveries[appended[a].n].isMap
    /\ pc \in {"pull", "process", "insert", "graphs"} =>
          /\ Len(db.songs) = Len(appended)
          /\ \A k \in DOMAIN appended : db.songs[k].id = appended[k].id

\* Messages 1 and 3 accepted, message 2 rejected in between.
C4_Witness ==
    /\ Len(appended) = 2
    /\ appended[1].n = 1
    /\ appended[2].n = 3
    /\ ~ValidatedFor(2)
    /\ appended[2].id = appended[1].id + 1

\* C5 as stated: when the broker is unreachable at startup the process fails
\* before any store mutation - the file was neither deleted nor created or
\* initialised by this run.
C5_NoStoreMutationBeforeBrokerFailure ==
    cause = "broker" => (~unlinked /\ initialised = 0)

\* C5 amended: when the broker is unreachable at startup the process exits
\* with status 11 before a consumer is created and before any message is
\* pulled or record appended; by then main has already deleted any prior
\* database file and run init_db, so the store holds an empty songs table.
C5_BrokerFailureAfterResetBeforeConsume ==
    cause = "broker" =>
        /\ exitCode = ExitVerifyServices
        /\ initialised = 1
        /\ db = [exists |-> TRUE, hasTable |-> TRUE, songs |-> <<>>, seq |-> 0]
        /\ consumer = "unset"
        /\ deliveries = <<>>
        /\ appended = <<>>
        /\ recomputed = <<>>

C5_Witness == cause = "broker" /\ unlinked /\ initialised = 1 /\ pc = "exited"

\* The three causes of a startup failure and the status each exits with.
StartupCauses == {"broker", "topic", "consumer"}
StatusOf(c) ==
    CASE c = "broker" -> ExitVerifyServices
      [] c = "topic" -> ExitTopic
      [] OTHER -> ExitCreateConsumer

\* C6 as stated: broker unreachable, topic missing and consumer creation
\* failure each exit with a status that neither of the other two causes
\* exits with.
C6_DistinctStartupStatus ==
    (pc = "exited" /\ cause \in StartupCauses) =>
        /\ exitCode = StatusOf(cause)
        /\ \A c \in StartupCauses \ {cause} : exitCode # StatusOf(c)

\* C7: the k-th recomputation is the one triggered by the k-th accepted
\* message and reads a store holding the rows of accepted messages 1..k and
\* no other; while message N is being recomputed no later message has been
\* pulled, and a message is pulled, validated or appended only when every
\* earlier accepted message has had its recomputation finish.
C7_RecomputationSeesExactlyOneToN ==
    /\ Len(recomputed) <= Len(appended)
    /\ \A k \in DOMAIN recomputed :
          /\ recomputed[k].n = appended[k].n
          /\ Len(recomputed[k].songs) = k
          /\ \A j \in 1..k : recomputed[k].songs[j].id = appended[j].id
          /\ recomputed[k].rendered
    /\ pc = "graphs" =>
          /\ Len(appended) = Len(recomputed) + 1
          /\ appended[Len(appended)].n = Len(deliveries)
          /\ db.songs[Len(db.songs)].id = appended[Len(appended)].id
    /\ pc \in {"pull", "process", "insert"} => Len(recomputed) = Len(appended)

\* Two accepted messages with a rejected one between them, both recomputed.
C7_Witness ==
    /\ pc = "pull"
    /\ Len(recomputed) = 2
    /\ recomputed[1].n = 1
    /\ recomputed[2].n = 3
    /\ Len(recomputed[2].songs) = 2

RECURSIVE SumCounts(_)
SumCounts(data) == IF data = <<>> THEN 0 ELSE Head(data)[2] + SumCounts(Tail(data))

\* The store the last recomputation read.
LastRead == recomputed[Len(recomputed)].songs

\* C8: the release-year count projection has exactly one pair per distinct
\* release_year of the store it was computed from, each value is the number
\* of stored rows with that release_year, and the values sum to the number
\* of stored rows.
C8_ReleaseYearCounts ==
    recomputed # <<>> =>
        /\ {release_year_data[k][1] : k \in DOMAIN release_year_data}
              = {LastRead[j].release_year : j \in DOMAIN LastRead}
        /\ \A a, b \in DOMAIN release_year_data :
              release_year_data[a][1] = release_year_data[b][1] => a = b
        /\ \A k \in DOMAIN release_year_data :
              release_year_data[k][2] =
                  Cardinality({j \in DOMAIN LastRead :
                                  LastRead[j].release_year = release_year_data[k][1]})
        /\ SumCounts(release_year_data) = Len(LastRead)

\* Years {1975, 1975, 1980} give [(1975, 2), (1980, 1)].
C8_Witness ==
    /\ recomputed # <<>>
    /\ Len(LastRead) = 3
    /\ release_year_data = << <<IntV(1975), 2>>, <<IntV(1980), 1>> >>

\* SQLite's order of the genre keys of the model: NULL first, then text in
\* byte order.
GenreRank(v) == IF v.t = "null" THEN 0 ELSE IF v.s = "Pop" THEN 1 ELSE 2

YearsAscending(data) ==
    \A a, b \in DOMAIN data : a < b => data[a][1].i < data[b][1].i

\* C9 as stated: each of the three grouped queries returns its pairs ordered
\* by group key ascending.
C9_AllQueriesAscending ==
    /\ YearsAscending(release_year_data)
    /\ YearsAscending(sentiment_data)
    /\ \A a, b \in DOMAIN genre_data :
          a < b => GenreRank(genre_data[a][1]) < GenreRank(genre_data[b][1])

\* C9 amended: the two queries grouped by release_year (count, and mean
\* sentiment) return their pairs ordered by release_year ascending, one pair
\* per year; the count by genre has no ORDER BY and returns one pair per
\* genre in whatever order the database produces.
C9_YearQueriesAscending ==
    /\ YearsAscending(release_year_data)
    /\ YearsAscending(sentiment_data)
    /\ recomputed # <<>> =>
          /\ {release_year_data[k][1] : k \in DOMAIN release_year_data}
                = {LastRead[j].release_year : j \in DOMAIN LastRead}
          /\ {sentiment_data[k][1] : k \in DOMAIN sentiment_data}
                = {LastRead[j].release_year : j \in DOMAIN LastRead}
          /\ {genre_data[k][1] : k \in DOMAIN genre_data}
                = {LastRead[j].genre : j \in DOMAIN LastRead}
          /\ Len(genre_data) = Cardinality({LastRead[j].genre : j \in DOMAIN LastRead})

\* Three years, inserted in descending order, and the genres out of order.
C9_Witness ==
    /\ Len(release_year_data) = 3
    /\ Len(sentiment_data) = 3
    /\ LastRead[1].release_year.i > LastRead[2].release_year.i
    /\ Len(genre_data) = 2
    /\ GenreRank(genre_data[1][1]) > GenreRank(genre_data[2][1])

\* C10: a call of init_db on a store that already has the songs table leaves
\* the store as it is - every row with its identifier and fields, no row
\* added, the AUTOINCREMENT counter not reset - and an insert after it gets
\* an identifier above every identifier handed out before.
C10_InitDbIdempotent ==
    [][/\ (initialised' = initialised + 1 /\ db.hasTable) => db' = db
       /\ Len(db'.songs) > Len(db.songs) =>
             /\ db'.songs[Len(db'.songs)].id > MaxId(db.songs)
             /\ db'.songs[Len(db'.songs)].id > db.seq
             /\ SubSeq(db'.songs, 1, Len(db.songs)) = db.songs]_vars

\* The second init_db call, made on a table that holds two rows.
C10_Witness ==
    /\ pc = "store"
    /\ cause = "init_db"
    /\ initialised = 2
    /\ Len(db.songs) = 2
    /\ db.seq = 2

\* The statements of the per-message loop: the consumer is RUNNING.
LoopStates == {"pull", "process", "insert", "graphs"}

\* A message the validator rejects: no mapping, or a mapping with a numeric
\* field that is present and not coercible.
Rejected(m) == ~m.isMap \/ HasNonCoercible(m)

\* C11: while the consumer is RUNNING, the step that validates a rejected
\* message leaves it RUNNING - it goes back to pulling, with no exit status
\* and the store untouched - and a message delivered after a rejected one is
\* validated, appended and recomputed like any other.
C11_RejectedMessageKeepsRunning ==
    [][/\ (pc = "process" /\ Rejected(message) /\ cause' # "interrupt") =>
             /\ pc' = "pull"
             /\ exitCode' = Running
             /\ processed_message' = None
             /\ db' = db
       /\ (pc = "graphs" /\ pc' = "pull") =>
             /\ AppendedFor(Len(deliveries))
             /\ recomputed'[Len(recomputed')].n = Len(deliveries)
             /\ ~Rejected(message)]_vars

\* A rejected first message, then an accepted one, fully processed.
C11_Witness ==
    /\ pc = "pull"
    /\ exitCode = Running
    /\ Len(deliveries) = 2
    /\ Rejected(deliveries[1])
    /\ AppendedFor(2)
    /\ RecomputedFor(2)
    /\ Len(db.songs) = 1

\* C12 as stated: a storage error or a transport error while RUNNING ends
\* the process with an exit status of its category, which is not the status
\* of a clean operator-requested stop (main returning normally).
C12_FatalErrorHasOwnStatus ==
    (pc = "exited" /\ cause \in {"storage", "transport"}) => exitCode # ExitNormal

\* C13: a KeyboardInterrupt raised while the consumer is RUNNING stops it
\* with the status of a normal return, and leaves every committed row in
\* place and unchanged; an interrupted insert leaves the store as it was or
\* with the whole new row (a fresh identifier and the record's fields).
C13_InterruptKeepsCommittedRows ==
    [][(pc \in LoopStates /\ cause' = "interrupt") =>
          /\ pc' = "exited"
          /\ exitCode' = ExitNormal
          /\ \/ db' = db
             \/ /\ pc = "insert"
                /\ Len(db'.songs) = Len(db.songs) + 1
                /\ SubSeq(db'.songs, 1, Len(db.songs)) = db.songs
                /\ LET row == db'.songs[Len(db'.songs)]
                       rec == processed_message[1]
                   IN  /\ row.id > MaxId(db.songs)
                       /\ row.duration_seconds = rec.duration_seconds
                       /\ row.release_year = rec.release_year
                       /\ row.sentiment = rec.sentiment
                       /\ \A k \in TextFields :
                             rec[k].t \in {"str", "null"} => row[k] = rec[k]]_vars

\* Interrupted with two rows committed, the second not yet recomputed.
C13_Witness ==
    /\ pc = "exited"
    /\ cause = "interrupt"
    /\ exitCode = ExitNormal
    /\ Len(db.songs) = 2
    /\ Len(appended) = 2
    /\ Len(recomputed) = 1

\* C14 as stated: a delivered message whose payload the value deserializer
\* cannot decode does not end the processing loop.
C14_UndecodableKeepsRunning ==
    cause = "decode" => (pc \in LoopStates /\ exitCode = Running)

\* C15: a validated message is never dropped with the loop going on: a
\* validated record without a committed row is the one of the message
\* delivered last, the consumer is inserting it or has exited, and nothing
\* was delivered, validated or appended after it; a storage error ends the
\* process; every committed row is in the table.
C15_ValidatedNeverSkipped ==
    /\ \A k \in DOMAIN validated :
          ~AppendedFor(validated[k].n) =>
              /\ k = Len(validated)
              /\ validated[k].n = Len(deliveries)
              /\ pc \in {"insert", "exited"}
              /\ \A a \in DOMAIN appended : appended[a].n < validated[k].n
    /\ cause = "storage" =>
          /\ pc = "exited"
          /\ validated # <<>>
          /\ validated[Len(validated)].n = Len(deliveries)
          /\ ~AppendedFor(Len(deliveries))
    /\ initialised = 1 =>
          \A a \in DOMAIN appended :
              \E j \in DOMAIN db.songs : db.songs[j].id = appended[a].id

\* The second accepted message fails in insert_message: the process has
\* exited with the first row stored.
C15_Witness ==
    /\ cause = "storage"
    /\ pc = "exited"
    /\ Len(validated) = 2
    /\ Len(appended) = 1
    /\ Len(db.songs) = 1
    /\ Len(deliveries) = 2

\* C16 as stated, the part that fails: a consumer handle exists only once
\* topic existence has been confirmed, that is, never while the topic check
\* is still to be made.
C16_HandleOnlyAfterTopicCheck ==
    consumer = "handle" => pc # "verify_topic"

\* C16 amended: the consumer starts with reading the configuration and
\* preparing the store, then checks the broker, then creates the consumer
\* handle, then checks the topic: the handle is created only after broker
\* reachability was confirmed and before topic existence is checked.  The
\* message loop is entered, and any message processed or record appended,
\* only if all three succeeded; a missing topic ends the process with
\* status 13 and no message processed.
C16_LifecycleOrder ==
    /\ consumer # "unset" =>
          /\ pc \notin {"read_config", "delete_db", "init_db", "verify_services",
                        "create_consumer"}
          /\ cause \notin {"config", "delete", "init_db", "broker", "consumer"}
    /\ pc \in {"read_config", "delete_db", "init_db", "verify_services", "create_consumer"}
          => consumer = "unset"
    /\ cause \in {"broker", "consumer"} => (consumer = "unset" /\ pc = "exited")
    /\ pc \in LoopStates => (consumer = "handle" /\ cause = "" /\ exitCode = Running)
    /\ (deliveries # <<>> \/ validated # <<>> \/ appended # <<>> \/ recomputed # <<>>) =>
          /\ consumer = "handle"
          /\ cause \notin {"config", "delete", "init_db", "broker", "consumer", "topic",
                           "consumer_none"}
    /\ cause = "topic" =>
          /\ pc = "exited"
          /\ exitCode = ExitTopic
          /\ consumer = "handle"
          /\ deliveries = <<>>
          /\ db.songs = <<>>

\* The handle exists and the topic check is still to be made.
C16_Witness == consumer = "handle" /\ pc = "verify_topic" /\ exitCode = Running

\* C17: the database file is deleted only by main's step 2, before init_db
\* and at most once (the step is never reached again); once init_db has run
\* no step removes or changes a stored row: the table only grows.
C17_OneResetThenAppendOnly ==
    [][/\ (db # db' /\ (~db'.exists \/ Len(db'.songs) < Len(db.songs))) =>
             (pc = "delete_db" /\ initialised = 0 /\ ~unlinked /\ unlinked')
       /\ unlinked => (unlinked' /\ (db.exists => db'.exists) /\ pc' # "delete_db")
       /\ pc' = "delete_db" => pc = "read_config"
       /\ initialised' > initialised => (pc = "init_db" /\ initialised = 0)
       /\ initialised >= 1 =>
             /\ db'.hasTable
             /\ Len(db'.songs) >= Len(db.songs)
             /\ SubSeq(db'.songs, 1, Len(db.songs)) = db.songs]_vars

\* A prior file was deleted, and two rows were appended since.
C17_Witness ==
    /\ unlinked
    /\ initialised = 1
    /\ pc = "pull"
    /\ Len(db.songs) = 2
    /\ Len(deliveries) = 3

\* C18 as stated: every row stored by this run has a duration_seconds that
\* is not negative.
C18_DurationNonNegative ==
    initialised = 1 =>
        \A k \in DOMAIN db.songs :
            db.songs[k].duration_seconds.t = "int" /\ db.songs[k].duration_seconds.i >= 0

\* C19: when generate_combined_graphs raises for the N-th accepted message
\* the process stops there: the row of message N is committed and stays in
\* the table with the rows before it, no recomputation is recorded for it,
\* and no later message was pulled.
C19_RecomputeFailureKeepsRow ==
    cause = "aggregate" =>
        /\ pc = "exited"
        /\ appended # <<>>
        /\ appended[Len(appended)].n = Len(deliveries)
        /\ Len(recomputed) = Len(appended) - 1
        /\ Len(db.songs) = Len(appended)
        /\ \A a \in DOMAIN appended : db.songs[a].id = appended[a].id
        /\ LET row == db.songs[Len(db.songs)]
               rec == validated[Len(validated)].rec
           IN  /\ validated[Len(validated)].n = Len(deliveries)
               /\ row.duration_seconds = rec.duration_seconds
               /\ row.release_year = rec.release_year
               /\ row.sentiment = rec.sentiment

\* The recomputation for the second accepted message raised.
C19_Witness ==
    /\ cause = "aggregate"
    /\ pc = "exited"
    /\ Len(db.songs) = 2
    /\ Len(recomputed) = 1
    /\ Len(deliveries) = 2

\* C20: main runs read configuration, delete prior file, init_db, consume in
\* this order, and a failure of step k exits with status k with no later
\* step run: after a configuration failure the file is as it was found, and
\* after a delete failure the file is still there, init_db was not called
\* and no consumer was started.
C20_StartupStepsInOrder ==
    /\ cause = "config" =>
          /\ pc = "exited" /\ exitCode = 1
          /\ ~unlinked /\ initialised = 0 /\ consumer = "unset" /\ deliveries = <<>>
          /\ db \in {NoFile, PriorStore}
    /\ cause = "delete" =>
          /\ pc = "exited" /\ exitCode = 2
          /\ ~unlinked /\ initialised = 0 /\ consumer = "unset" /\ deliveries = <<>>
          /\ db = PriorStore
    /\ cause = "init_db" =>
          /\ pc = "exited" /\ exitCode = 3
          /\ initialised = 0 /\ consumer = "unset" /\ deliveries = <<>>
          /\ ~db.hasTable
    /\ unlinked => pc \notin {"read_config", "delete_db"}
    /\ initialised = 1 => (pc \notin {"read_config", "delete_db", "init_db"} /\ db.hasTable)
    /\ pc \in StepFour => initialised = 1
    /\ (consumer # "unset" \/ deliveries # <<>>) => initialised = 1

\* The delete of the prior file failed: status 2, the file untouched.
C20_Witness ==
    /\ pc = "exited"
    /\ cause = "delete"
    /\ exitCode = 2
    /\ db = PriorStore
    /\ initialised = 0

====
